---- MODULE Spec2Model ----
(***************************************************************************)
(* Model of the spatial risk-classification core of                        *)
(* src/flood_checker_integrated.py (class IntegratedFloodRiskChecker):     *)
(* calculate_distance_to_flood_areas, assess_comprehensive_flood_risk,     *)
(* _categorize_risk_from_distance, _get_yearly_chance_estimate and         *)
(* _project_future_risk.                                                   *)
(*                                                                         *)
(* Lengths are integers counting millimetres, so that a float distance in  *)
(* metres with three decimals is exact: 100.004 m is 100004.  Python dicts *)
(* and pandas rows are functions with a string domain; `k in d` is         *)
(* k \in DOMAIN d.  Optional values are sequences of length at most one.   *)
(* A polygon is represented by its relation to the queried point: what     *)
(* shapely's contains() and distance() return for it.                      *)
(***************************************************************************)
EXTENDS Integers, Sequences, FiniteSets, TLC

VARIABLES
    coordinates,   \* the query point: None or a pair (abstracted to "point")
    fra_data,      \* self.fra_data: not loaded (None) or a GeoDataFrame
    pc,            \* which call has been made
    proximity,     \* outcome of calculate_distance_to_flood_areas
    assessment,    \* outcome of assess_comprehensive_flood_risk
    probe          \* a direct call of one of the private helpers

vars == <<coordinates, fra_data, pc, proximity, assessment, probe>>

----------------------------------------------------------------------------
(* Bounds of the model *)

\* largest number of rows of a dataset
MaxRows == 3

\* the helpers are probed at every millimetre within this many of a threshold
MaxDelta == 12

----------------------------------------------------------------------------
(* Encodings *)

None == <<>>
Some(x) == <<x>>

\* metres as millimetres
Meters(m) == m * 1000

\* Python's dict.get(key, default)
Get(d, key, default) == IF key \in DOMAIN d THEN d[key] ELSE default

\* Python's `sub in s` for strings
Contains(sub, s) ==
    \E i \in 1..(Len(s) - Len(sub) + 1) : SubSeq(s, i, i + Len(sub) - 1) = sub

\* Python's dict.update(): the keys of `more` override those of `d`
Update(d, more) ==
    [k \in (DOMAIN d) \cup (DOMAIN more) |->
        IF k \in DOMAIN more THEN more[k] ELSE d[k]]

\* Python's round(x, 2) on a length in millimetres: to the nearest
\* centimetre, an exact tie going to the even centimetre (a float holding
\* an exact tie, such as 0.125, is rounded half to even).
Round2(d) ==
    LET q == d \div 10
        r == d % 10
    IN  10 * (IF r < 5 THEN q
              ELSE IF r > 5 THEN q + 1
              ELSE IF q % 2 = 0 THEN q ELSE q + 1)

----------------------------------------------------------------------------
(* Risk Classifier and Likelihood Estimator *)

\* the ladder with exclusive thresholds
categorize_exclusive(distance_meters, is_inside) ==
    IF is_inside THEN "HIGH"
    ELSE IF distance_meters < Meters(100) THEN "MEDIUM"
    ELSE IF distance_meters < Meters(500) THEN "LOW"
    ELSE "VERY LOW"

_categorize_risk_from_distance(distance_meters, is_inside) ==
    IF is_inside THEN "HIGH"
    ELSE IF distance_meters <= Meters(100) THEN "MEDIUM"
    ELSE IF distance_meters <= Meters(500) THEN "LOW"
    ELSE "VERY LOW"

risk_mapping ==
    [HIGH |-> "Greater than 1 in 30 (3.3%)",
     MEDIUM |-> "Between 1 in 100 and 1 in 30 (1% to 3.3%)",
     LOW |-> "Between 1 in 1000 and 1 in 100 (0.1% to 1%)"]
    @@ ("VERY LOW" :> "Less than 1 in 1000 (0.1%)")

_get_yearly_chance_estimate(risk_level) ==
    Get(risk_mapping, risk_level, "Unknown")

\* a projection that appends the note to every band but the first
project_without_narrowing(current_risk) ==
    IF Contains("Greater than 1 in 30", current_risk)
    THEN "Greater than 1 in 30 (3.3%) - increasing trend expected"
    ELSE current_risk \o " - may increase slightly due to climate change"

_project_future_risk(current_risk) ==
    IF Contains("Greater than 1 in 30", current_risk)
    THEN "Greater than 1 in 30 (3.3%) - increasing trend expected"
    ELSE IF Contains("Between 1 in 100 and 1 in 30", current_risk)
    THEN "Between 1 in 75 and 1 in 30 (1.3% to 3.3%) - higher due to climate change"
    ELSE current_risk \o " - may increase slightly due to climate change"

----------------------------------------------------------------------------
(* Proximity Evaluator with the Geometry Normalizer inlined in its loop *)

\* area['fra_name'] or area['flood_sour'] on a row that has 'fra_id' but
\* not that field raises KeyError
KeyError(area) ==
    /\ "fra_id" \in DOMAIN area
    /\ ~({"fra_name", "flood_sour"} \subseteq DOMAIN area)

\* the containment test and the distance of one row
is_inside(area) == area.geometry.contains

distance(area) ==
    IF is_inside(area) THEN 0 ELSE area.geometry.distance

risk_status(area) ==
    IF is_inside(area) THEN "INSIDE" ELSE "OUTSIDE"

\* the schema variant with the probability band looked for first
Variant_band_first(area) ==
    IF "prob_4band" \in DOMAIN area THEN "rivers_sea"
    ELSE IF "fra_id" \in DOMAIN area THEN "fra"
    ELSE "generic"

\* the schema variant of a row: the first matching field decides
Variant(area) ==
    IF "fra_id" \in DOMAIN area THEN "fra"
    ELSE IF "prob_4band" \in DOMAIN area THEN "rivers_sea"
    ELSE "generic"

\* the fields the schema variant adds; n is len(results) when the row is
\* reached
SchemaFields(area, n) ==
    CASE Variant(area) = "fra" ->
            [id |-> area.fra_id,
             name |-> area.fra_name,
             source |-> area.flood_sour,
             cycle |-> Get(area, "frr_cycle", "Unknown")]
      [] Variant(area) = "rivers_sea" ->
            [id |-> "Rivers_Sea_" \o ToString(n),
             name |-> "Rivers and Sea Risk Area",
             source |-> "Rivers and Sea",
             probability |-> area.prob_4band]
      [] OTHER ->
            [id |-> "Area_" \o ToString(n),
             name |-> "Flood Risk Area",
             source |-> "Unknown",
             cycle |-> "Unknown"]

\* the dict appended for one row
area_info(area, n) ==
    Update([distance_meters |-> Round2(distance(area)),
            risk_status |-> risk_status(area),
            geometry |-> area.geometry],
           SchemaFields(area, n))

\* the for loop over data_source.iterrows(), from row i on
RECURSIVE Iterrows(_, _, _)
Iterrows(rows, i, results) ==
    IF i > Len(rows) THEN results
    ELSE Iterrows(rows, i + 1, Append(results, area_info(rows[i], Len(results))))

\* the sort key of results.sort
SortKey(x) == x.distance_meters

\* an insertion that puts x before the elements of equal key
Insert_unstable(x, s) ==
    LET k == Cardinality({j \in 1..Len(s) : SortKey(s[j]) < SortKey(x)})
    IN  SubSeq(s, 1, k) \o <<x>> \o SubSeq(s, k + 1, Len(s))

\* where list.sort puts x among the already sorted s: behind every element
\* whose key is not greater (the sort is stable)
Insert(x, s) ==
    LET k == Cardinality({j \in 1..Len(s) : SortKey(s[j]) <= SortKey(x)})
    IN  SubSeq(s, 1, k) \o <<x>> \o SubSeq(s, k + 1, Len(s))

RECURSIVE Sort(_)
Sort(s) ==
    IF Len(s) = 0 THEN <<>>
    ELSE Insert(s[Len(s)], Sort(SubSeq(s, 1, Len(s) - 1)))

\* outcomes of a call: a returned value or a raised exception
Returned(v) == [exception |-> None, value |-> v]
Raised(e) == [exception |-> Some(e), value |-> <<>>]

calculate_distance_to_flood_areas(coords, data_source) ==
    IF coords = None \/ ~data_source.loaded \/ Len(data_source.rows) = 0
    THEN Returned(<<>>)
    ELSE IF \E i \in 1..Len(data_source.rows) : KeyError(data_source.rows[i])
    THEN Raised("KeyError")
    ELSE Returned(Sort(Iterrows(data_source.rows, 1, <<>>)))

----------------------------------------------------------------------------
(* Assessment Aggregator *)

\* all_fra_areas[:5]
NearestLimit == 5

\* Python's empty dict
EmptyDict == [k \in {} |-> None]

\* the filters that separate all_fra_areas by flood source
IsSurfaceWater(a) == Contains("Surface Water", Get(a, "source", ""))

IsRiversSea(a) ==
    \/ Contains("Rivers", Get(a, "source", ""))
    \/ Contains("Sea", Get(a, "source", ""))

\* the surface water list without the filter
surface_areas_unfiltered(all_fra_areas) == all_fra_areas

surface_areas(all_fra_areas) == SelectSeq(all_fra_areas, IsSurfaceWater)

rivers_areas(all_fra_areas) == SelectSeq(all_fra_areas, IsRiversSea)

\* the last element of a category's list
Closest_last(areas) == areas[Len(areas)]

\* the element of a category's list the assessment is taken from
Closest(areas) == areas[1]

\* the dict of one category, from its list of areas
CategoryAssessment(areas) ==
    IF Len(areas) > 0
    THEN LET closest == Closest(areas)
             risk == _categorize_risk_from_distance(
                         closest.distance_meters,
                         closest.risk_status = "INSIDE")
         IN  [risk_level |-> risk,
              yearly_chance_current |-> _get_yearly_chance_estimate(risk),
              yearly_chance_2040s |->
                  _project_future_risk(_get_yearly_chance_estimate(risk)),
              closest_distance |-> Some(closest.distance_meters),
              areas_count |-> Len(areas)]
    ELSE [risk_level |-> "VERY LOW",
          yearly_chance_current |-> "Less than 1 in 1000 (0.1%)",
          yearly_chance_2040s |->
              "Less than 1 in 1000 (0.1%) - may increase slightly",
          closest_distance |-> None,
          areas_count |-> 0]

\* the assessment dict as first built
InitialAssessment(coords) ==
    [coordinates |-> coords,
     surface_water |->
         [risk_level |-> "DATA NOT AVAILABLE",
          note |-> "Surface water data not yet integrated"],
     rivers_and_sea |->
         [risk_level |-> "DATA NOT AVAILABLE", note |-> "Processing..."],
     reservoirs |->
         [risk_level |-> "DATA NOT AVAILABLE", note |-> "Checking API..."],
     groundwater |->
         [risk_level |-> "DATA NOT AVAILABLE", note |-> "Requires BGS data"],
     nearest_areas |-> <<>>]

\* all_fra_areas[:5]
nearest_areas(all_fra_areas) ==
    SubSeq(all_fra_areas, 1,
           IF Len(all_fra_areas) < NearestLimit
           THEN Len(all_fra_areas) ELSE NearestLimit)

\* the block under `if self.fra_data is not None`
WithFraData(a, all_fra_areas) ==
    Update(a, [surface_water |-> CategoryAssessment(surface_areas(all_fra_areas)),
               rivers_and_sea |-> CategoryAssessment(rivers_areas(all_fra_areas)),
               nearest_areas |-> nearest_areas(all_fra_areas)])

\* reservoir_result is what check_reservoir_risk_api returned, taken as is
assess_comprehensive_flood_risk(coords, data, reservoir_result) ==
    IF coords = None THEN Returned(EmptyDict)
    ELSE LET called == calculate_distance_to_flood_areas(coords, data)
             a == InitialAssessment(coords)
         IN  IF data.loaded /\ called.exception # None
             THEN Raised(called.exception[1])
             ELSE Returned(Update(
                      IF data.loaded THEN WithFraData(a, called.value) ELSE a,
                      [reservoirs |-> reservoir_result]))

\* results check_reservoir_risk_api can return (it catches every exception)
ReservoirResults ==
    {[risk_level |-> "VERY LOW", areas_count |-> 0,
      note |-> "No reservoir flood risk areas found at this location"],
     [risk_level |-> "DATA UNAVAILABLE", reason |-> "API request timed out"]}

----------------------------------------------------------------------------
(* Inputs *)

\* a query point in British National Grid, or None
Point == <<530000, 180000>>

\* what contains() and distance() give for a polygon: the point inside it,
\* on its boundary (not contained, distance 0), or outside it
Geometries ==
    {[contains |-> TRUE, distance |-> 0]}
    \cup {[contains |-> FALSE, distance |-> d] :
            d \in {0, 4, Meters(75), Meters(100) + 4, Meters(600)}}

\* values of the flood_sour column
Sources == {"Surface Water", "Rivers and Sea", "Groundwater"}

\* the column sets of the datasets: the Flood Risk Area shapefile with a
\* probability band added, the same shapefile without its cycle, with the
\* id alone, the rivers and sea extents, and a shapefile of bare polygons
Schemas ==
    {{"fra_id", "fra_name", "flood_sour", "frr_cycle", "prob_4band"},
     {"fra_id", "fra_name", "flood_sour"},
     {"fra_id"},
     {"prob_4band"},
     {}}

\* row i of a dataset with the given columns
Row(columns, i, geometry, source) ==
    [c \in columns \cup {"geometry"} |->
        CASE c = "geometry" -> geometry
          [] c = "fra_id" -> "UKE41FRA" \o ToString(i)
          [] c = "fra_name" -> "Flood Risk Area " \o ToString(i)
          [] c = "flood_sour" -> source
          [] c = "frr_cycle" -> "Cycle 2"
          [] c = "prob_4band" -> "High"]

SourcesOf(columns) ==
    IF "flood_sour" \in columns THEN Sources ELSE {"Unknown"}

\* a loaded dataset: kind[i] is the geometry and the source of row i
DataFrame(columns, kind) ==
    [loaded |-> TRUE,
     columns |-> columns,
     rows |-> [i \in 1..Len(kind) |-> Row(columns, i, kind[i][1], kind[i][2])]]

NotLoaded == [loaded |-> FALSE, columns |-> {}, rows |-> <<>>]

----------------------------------------------------------------------------
(* The assessment of one location *)

NoProbe == [fn |-> "none"]

Init ==
    /\ coordinates \in {None, Point}
    /\ \/ fra_data = NotLoaded
       \/ \E columns \in Schemas, n \in 0..MaxRows :
             \E kind \in [1..n -> Geometries \X SourcesOf(columns)] :
                fra_data = DataFrame(columns, kind)
    /\ pc = "ready"
    /\ proximity = Returned(<<>>)
    /\ assessment = Returned(EmptyDict)
    /\ probe = NoProbe

Calculate ==
    /\ pc = "ready"
    /\ proximity' = calculate_distance_to_flood_areas(coordinates, fra_data)
    /\ pc' = "calculated"
    /\ UNCHANGED <<coordinates, fra_data, assessment, probe>>

Assess ==
    /\ pc = "ready"
    /\ \E reservoir_result \in ReservoirResults :
          assessment' = assess_comprehensive_flood_risk(
                            coordinates, fra_data, reservoir_result)
    /\ pc' = "assessed"
    /\ UNCHANGED <<coordinates, fra_data, proximity, probe>>

Next == Calculate \/ Assess

Spec == Init /\ [][Next]_vars

----------------------------------------------------------------------------
(* The private helpers called directly *)

ProbeDistances ==
    (0..MaxDelta)
    \cup ((Meters(100) - MaxDelta)..(Meters(100) + MaxDelta))
    \cup ((Meters(500) - MaxDelta)..(Meters(500) + MaxDelta))

RiskLevels == {"HIGH", "MEDIUM", "LOW", "VERY LOW"}

\* strings given to the helpers: the tiers and the bands of the table, the
\* levels of the other categories, and bands written differently
ProbeStrings ==
    RiskLevels
    \cup {risk_mapping[t] : t \in RiskLevels}
    \cup {"DATA NOT AVAILABLE", "DATA UNAVAILABLE", "Unknown", "",
          "About 1 in 50 - Greater than 1 in 30",
          "Roughly Between 1 in 100 and 1 in 30",
          "Greater than 1 in 3"}

InitProbe ==
    /\ coordinates = None
    /\ fra_data = NotLoaded
    /\ pc = "ready"
    /\ proximity = Returned(<<>>)
    /\ assessment = Returned(EmptyDict)
    /\ probe = NoProbe

Categorize ==
    /\ pc = "ready"
    /\ \E d \in ProbeDistances, inside \in BOOLEAN :
          probe' = [fn |-> "_categorize_risk_from_distance",
                    distance_meters |-> d,
                    is_inside |-> inside,
                    ret |-> _categorize_risk_from_distance(d, inside)]
    /\ pc' = "probed"
    /\ UNCHANGED <<coordinates, fra_data, proximity, assessment>>

Estimate ==
    /\ pc = "ready"
    /\ \E level \in ProbeStrings :
          probe' = [fn |-> "_get_yearly_chance_estimate",
                    risk_level |-> level,
                    ret |-> _get_yearly_chance_estimate(level)]
    /\ pc' = "probed"
    /\ UNCHANGED <<coordinates, fra_data, proximity, assessment>>

Project ==
    /\ pc \in {"ready", "probed"}
    /\ \E current_risk \in
            IF pc = "ready" THEN ProbeStrings
            ELSE IF probe.fn = "_get_yearly_chance_estimate" THEN {probe.ret}
            ELSE {} :
          probe' = [fn |-> "_project_future_risk",
                    current_risk |-> current_risk,
                    given |-> probe,
                    ret |-> _project_future_risk(current_risk)]
    /\ pc' = "projected"
    /\ UNCHANGED <<coordinates, fra_data, proximity, assessment>>

NextProbe == Categorize \/ Estimate \/ Project

SpecProbe == InitProbe /\ [][NextProbe]_vars

----------------------------------------------------------------------------
(* What the properties below read off the inputs *)

\* the rows of the dataset and the sequence a returned call gave
InputRows == fra_data.rows
Output == proximity.value

\* the calls that went through the loop and returned
CalculatedRows ==
    /\ pc = "calculated"
    /\ coordinates # None
    /\ fra_data.loaded
    /\ proximity.exception = None

AssessedRows ==
    /\ pc = "assessed"
    /\ coordinates # None
    /\ fra_data.loaded
    /\ assessment.exception = None

\* the true (unrounded) distance of a polygon and the one reported for it
TrueDistance(geometry) ==
    IF geometry.contains THEN 0 ELSE geometry.distance

Reported(geometry) == Round2(TrueDistance(geometry))

\* the source label a row is filed under (none for a row that has an id
\* and no source field)
RowSource(row) ==
    IF "fra_id" \in DOMAIN row THEN Get(row, "flood_sour", "")
    ELSE IF "prob_4band" \in DOMAIN row THEN "Rivers and Sea"
    ELSE "Unknown"

\* the identifier of the row at position i (from 1) of the input
RowId(row, i) ==
    IF "fra_id" \in DOMAIN row THEN row.fra_id
    ELSE IF "prob_4band" \in DOMAIN row THEN "Rivers_Sea_" \o ToString(i - 1)
    ELSE "Area_" \o ToString(i - 1)

\* the two categories and the test of a source label for each
Categories == {"surface_water", "rivers_and_sea"}

InCategory(cat, source) ==
    IF cat = "surface_water" THEN Contains("Surface Water", source)
    ELSE Contains("Rivers", source) \/ Contains("Sea", source)

\* positions of the input rows of a category
Members(cat) ==
    {i \in 1..Len(InputRows) : InCategory(cat, RowSource(InputRows[i]))}

\* the input position of the row an output entry was made from: the
\* identifiers of the rows of one dataset differ
Origin(out) ==
    CHOOSE i \in 1..Len(InputRows) : RowId(InputRows[i], i) = out.id

\* each output entry is made from an input row and no two from the same
OnePerRow ==
    /\ Len(Output) = Len(InputRows)
    /\ \A j \in 1..Len(Output) :
          \E i \in 1..Len(InputRows) : RowId(InputRows[i], i) = Output[j].id
    /\ \A j, k \in 1..Len(Output) : j # k => Output[j].id # Output[k].id

NoDataDefaults ==
    [risk_level |-> "VERY LOW",
     yearly_chance_current |-> "Less than 1 in 1000 (0.1%)",
     yearly_chance_2040s |-> "Less than 1 in 1000 (0.1%) - may increase slightly",
     closest_distance |-> None,
     areas_count |-> 0]

----------------------------------------------------------------------------
(* Properties of the Risk Classifier *)

\* C1: _categorize_risk_from_distance maps every (distance, is_inside) pair
\* by the ladder in order: inside gives HIGH, else a distance of at most
\* 100 m gives MEDIUM, else at most 500 m gives LOW, else VERY LOW; the
\* thresholds are inclusive (100.00 m MEDIUM, 100.01 m LOW, 500.00 m LOW,
\* 500.01 m VERY LOW).
C1_ThresholdLadder ==
    probe.fn = "_categorize_risk_from_distance" =>
        /\ probe.is_inside => probe.ret = "HIGH"
        /\ ~probe.is_inside /\ probe.distance_meters <= 100000
              => probe.ret = "MEDIUM"
        /\ ~probe.is_inside /\ probe.distance_meters > 100000
                            /\ probe.distance_meters <= 500000
              => probe.ret = "LOW"
        /\ ~probe.is_inside /\ probe.distance_meters > 500000
              => probe.ret = "VERY LOW"
        /\ ~probe.is_inside /\ probe.distance_meters = 100010
              => probe.ret = "LOW"
        /\ ~probe.is_inside /\ probe.distance_meters = 500010
              => probe.ret = "VERY LOW"

C1_Witness ==
    /\ probe.fn = "_categorize_risk_from_distance"
    /\ ~probe.is_inside
    /\ probe.distance_meters = 500000
    /\ probe.ret = "LOW"

----------------------------------------------------------------------------
(* Properties of the Proximity Evaluator *)

\* C2: every entry calculate_distance_to_flood_areas returns has a
\* distance that is not negative, and it is flagged INSIDE if and only if
\* its distance is 0, also for a point on a polygon's boundary or outside
\* it by less than the rounding step.
C2_ZeroIffInside ==
    CalculatedRows =>
        \A j \in 1..Len(Output) :
            /\ Output[j].distance_meters >= 0
            /\ (Output[j].risk_status = "INSIDE") <=> (Output[j].distance_meters = 0)

\* C3: the returned sequence has one entry per input row, ascending by
\* distance, and rows at equal distance keep the order they have in the
\* input dataset.
C3_SortedStablePermutation ==
    CalculatedRows =>
        /\ OnePerRow
        /\ \A j \in 1..Len(Output) :
              LET row == InputRows[Origin(Output[j])]
              IN  /\ Output[j].geometry = row.geometry
                  /\ Output[j].distance_meters = Reported(row.geometry)
        /\ \A j, k \in 1..Len(Output) :
              j < k =>
                  /\ Output[j].distance_meters <= Output[k].distance_meters
                  /\ Output[j].distance_meters = Output[k].distance_meters
                        => Origin(Output[j]) < Origin(Output[k])

\* three rows, the first farther than the other two, which are at one distance
C3_Witness ==
    /\ CalculatedRows
    /\ Len(InputRows) = 3
    /\ Reported(InputRows[1].geometry) > Reported(InputRows[2].geometry)
    /\ Reported(InputRows[2].geometry) = Reported(InputRows[3].geometry)
    /\ Output[1].id = RowId(InputRows[2], 2)
    /\ Output[2].id = RowId(InputRows[3], 3)
    /\ Output[3].id = RowId(InputRows[1], 1)

\* C7: every internal comparison uses the unrounded distance: the sort
\* orders two areas by their unrounded distances even when they round to
\* the same value, and a non-containing area at an unrounded distance
\* above 100 m does not make its category MEDIUM.
C7_UnroundedComparisons ==
    /\ CalculatedRows =>
          \A j, k \in 1..Len(Output) :
              j < k => TrueDistance(Output[j].geometry)
                          <= TrueDistance(Output[k].geometry)
    /\ AssessedRows =>
          \A cat \in Categories :
              (/\ Members(cat) # {}
               /\ \A i \in Members(cat) :
                     /\ ~InputRows[i].geometry.contains
                     /\ InputRows[i].geometry.distance > 100000)
                  => assessment.value[cat].risk_level # "MEDIUM"

\* C9: normalization picks the schema variant by field presence, first
\* match first: a row with the Flood Risk Area fields keeps its own id,
\* name, source and cycle, also when it has a probability band; otherwise
\* a row with a probability band is filed under 'Rivers and Sea' with the
\* band and an identifier made from its position in the input; otherwise
\* it is filed under 'Unknown' with a made-up identifier and name.  The
\* made-up identifiers of one result are pairwise distinct and are those
\* of the input positions, whatever the order by distance.
C9_SchemaVariants ==
    CalculatedRows =>
        /\ OnePerRow
        /\ \A j \in 1..Len(Output) :
              LET i == Origin(Output[j])
                  row == InputRows[i]
                  out == Output[j]
              IN  /\ out.geometry = row.geometry
                  /\ IF "fra_id" \in DOMAIN row
                     THEN /\ out.id = row.fra_id
                          /\ out.name = row.fra_name
                          /\ out.source = row.flood_sour
                          /\ out.cycle = (IF "frr_cycle" \in DOMAIN row
                                          THEN row.frr_cycle ELSE "Unknown")
                          /\ "probability" \notin DOMAIN out
                     ELSE IF "prob_4band" \in DOMAIN row
                     THEN /\ out.id = "Rivers_Sea_" \o ToString(i - 1)
                          /\ out.name = "Rivers and Sea Risk Area"
                          /\ out.source = "Rivers and Sea"
                          /\ out.probability = row.prob_4band
                          /\ "cycle" \notin DOMAIN out
                     ELSE /\ out.id = "Area_" \o ToString(i - 1)
                          /\ out.name = "Flood Risk Area"
                          /\ out.source = "Unknown"
                          /\ out.cycle = "Unknown"

\* a dataset with all the Flood Risk Area fields and a probability band,
\* whose second row is the nearer one
C9_Witness ==
    /\ CalculatedRows
    /\ fra_data.columns =
          {"fra_id", "fra_name", "flood_sour", "frr_cycle", "prob_4band"}
    /\ Len(Output) = 2
    /\ Output[1].id = InputRows[2].fra_id
    /\ Output[1].cycle = "Cycle 2"
    /\ Output[1].distance_meters < Output[2].distance_meters

\* C10: the core never raises: for an absent point, a missing or empty
\* dataset and rows with any subset of the schema attributes, both calls
\* return a defined result.
C10_NeverRaises ==
    /\ pc = "calculated" => proximity.exception = None
    /\ pc = "assessed" => assessment.exception = None

----------------------------------------------------------------------------
(* Properties of the Assessment Aggregator *)

\* the least reported distance of the rows at the positions m, and the
\* first of those rows that has it
LeastReported(m) ==
    LET ds == {Reported(InputRows[i].geometry) : i \in m}
    IN  CHOOSE d \in ds : \A e \in ds : d <= e

Nearest(m) ==
    LET least == LeastReported(m)
        at == {i \in m : Reported(InputRows[i].geometry) = least}
    IN  CHOOSE i \in at : \A k \in at : i <= k

\* C4: a category with at least one matching area is assessed from its
\* nearest matching area: the tier is the classifier's for that area, the
\* closest distance is that area's and the least of the category, the
\* count is the number of matching areas, and the present band is the
\* table's for the tier.
C4_CategoryFromNearest ==
    AssessedRows =>
        \A cat \in Categories :
            LET m == Members(cat)
                a == assessment.value[cat]
                g == InputRows[Nearest(m)].geometry
            IN  m # {} =>
                    /\ a.risk_level =
                          _categorize_risk_from_distance(Reported(g), g.contains)
                    /\ a.closest_distance = Some(LeastReported(m))
                    /\ a.areas_count = Cardinality(m)
                    /\ a.yearly_chance_current = risk_mapping[a.risk_level]

\* two Surface Water polygons, the first 600 m away and the second 75 m
C4_Witness ==
    /\ AssessedRows
    /\ Len(InputRows) >= 2
    /\ Members("surface_water") = {1, 2}
    /\ InputRows[1].geometry = [contains |-> FALSE, distance |-> 600000]
    /\ InputRows[2].geometry = [contains |-> FALSE, distance |-> 75000]
    /\ assessment.value.surface_water.risk_level = "MEDIUM"
    /\ assessment.value.surface_water.closest_distance = Some(75000)
    /\ assessment.value.surface_water.areas_count = 2
    /\ assessment.value.surface_water.yearly_chance_current =
          "Between 1 in 100 and 1 in 30 (1% to 3.3%)"

\* whether a category has no contributing areas
NoAreas(cat) ==
    \/ ~fra_data.loaded
    \/ Len(InputRows) = 0
    \/ Members(cat) = {}

C6_NearestIsUnion ==
    AssessedRows =>
        LET nearest == assessment.value.nearest_areas
            total == Cardinality(Members("surface_water"))
                        + Cardinality(Members("rivers_and_sea"))
        IN  /\ Len(nearest) = IF total < 5 THEN total ELSE 5
            /\ \A j \in 1..Len(nearest) :
                  \E cat \in Categories : InCategory(cat, nearest[j].source)
            /\ \A j, k \in 1..Len(nearest) :
                  j < k => nearest[j].distance_meters <= nearest[k].distance_meters

----------------------------------------------------------------------------
(* Properties of the Likelihood Estimator *)

\* the note _project_future_risk appends
SlightNote == " - may increase slightly due to climate change"

\* C8: for each of the four tiers _get_yearly_chance_estimate returns the
\* table's present band and _project_future_risk of that band returns the
\* table's future band: HIGH keeps its band with an increasing-trend note,
\* MEDIUM narrows to 1 in 75 to 1 in 30, LOW and VERY LOW keep their band
\* with the may-increase-slightly note appended; the projection goes by
\* the band string alone and gives a result for every string.
C8_LikelihoodTable ==
    /\ probe.fn = "_get_yearly_chance_estimate" =>
          /\ probe.risk_level = "HIGH"
                => probe.ret = "Greater than 1 in 30 (3.3%)"
          /\ probe.risk_level = "MEDIUM"
                => probe.ret = "Between 1 in 100 and 1 in 30 (1% to 3.3%)"
          /\ probe.risk_level = "LOW"
                => probe.ret = "Between 1 in 1000 and 1 in 100 (0.1% to 1%)"
          /\ probe.risk_level = "VERY LOW"
                => probe.ret = "Less than 1 in 1000 (0.1%)"
    /\ probe.fn = "_project_future_risk"
       /\ probe.given.fn = "_get_yearly_chance_estimate" =>
          /\ probe.given.risk_level = "HIGH"
                => probe.ret =
                     "Greater than 1 in 30 (3.3%) - increasing trend expected"
          /\ probe.given.risk_level = "MEDIUM"
                => probe.ret =
                     "Between 1 in 75 and 1 in 30 (1.3% to 3.3%) - higher due to climate change"
          /\ probe.given.risk_level = "LOW"
                => probe.ret =
                     "Between 1 in 1000 and 1 in 100 (0.1% to 1%)" \o SlightNote
          /\ probe.given.risk_level = "VERY LOW"
                => probe.ret = "Less than 1 in 1000 (0.1%)" \o SlightNote
    /\ probe.fn = "_project_future_risk" =>
          /\ Len(probe.ret) > 0
          /\ probe.current_risk = "About 1 in 50 - Greater than 1 in 30"
                => probe.ret =
                     "Greater than 1 in 30 (3.3%) - increasing trend expected"
          /\ probe.current_risk = "Roughly Between 1 in 100 and 1 in 30"
                => probe.ret =
                     "Between 1 in 75 and 1 in 30 (1.3% to 3.3%) - higher due to climate change"
          /\ probe.current_risk \in {"", "Unknown", "Greater than 1 in 3"}
                => probe.ret = probe.current_risk \o SlightNote

\* the band of MEDIUM looked up and then projected
C8_Witness ==
    /\ probe.fn = "_project_future_risk"
    /\ probe.given.fn = "_get_yearly_chance_estimate"
    /\ probe.given.risk_level = "MEDIUM"
    /\ probe.current_risk = "Between 1 in 100 and 1 in 30 (1% to 3.3%)"
    /\ probe.ret =
          "Between 1 in 75 and 1 in 30 (1.3% to 3.3%) - higher due to climate change"

----------------------------------------------------------------------------
(* Properties of a category's tier and bands *)

\* the tiers by severity
Severity(tier) ==
    CASE tier = "HIGH" -> 3
      [] tier = "MEDIUM" -> 2
      [] tier = "LOW" -> 1
      [] OTHER -> 0

\* the tier the classifier gives to the row at position i alone
TierOfRow(i) ==
    _categorize_risk_from_distance(Reported(InputRows[i].geometry),
                                   InputRows[i].geometry.contains)

\* C11: if the point is contained in at least one area of a category, the
\* category's tier is HIGH, and in general it is the most severe tier the
\* classifier gives to any single area of the category, also when an area
\* that does not contain the point is reported at distance 0.0 and comes
\* before the containing one in the dataset.
C11_ContainedIsHigh ==
    AssessedRows =>
        \A cat \in Categories :
            LET m == Members(cat)
                tier == assessment.value[cat].risk_level
            IN  m # {} =>
                    /\ (\E i \in m : InputRows[i].geometry.contains)
                          => tier = "HIGH"
                    /\ \A i \in m : Severity(TierOfRow(i)) <= Severity(tier)

\* C12: a category's present and future bands are a function of its tier
\* alone: two categories of one assessment with the same tier carry the
\* same two strings, and the strings are the table's band of the tier and
\* _project_future_risk of that band, also for the no-data default.
C12_BandsFollowTier ==
    AssessedRows =>
        /\ \A c1, c2 \in Categories :
              assessment.value[c1].risk_level = assessment.value[c2].risk_level
                  => /\ assessment.value[c1].yearly_chance_current
                          = assessment.value[c2].yearly_chance_current
                     /\ assessment.value[c1].yearly_chance_2040s
                          = assessment.value[c2].yearly_chance_2040s
        /\ \A cat \in Categories :
              LET a == assessment.value[cat]
              IN  /\ a.yearly_chance_current
                        = _get_yearly_chance_estimate(a.risk_level)
                  /\ a.yearly_chance_2040s
                        = _project_future_risk(
                              _get_yearly_chance_estimate(a.risk_level))

====
